---- MODULE Spec2Model ----
(***************************************************************************)
(* Model of the CAN dataset generator (src/main.go): the two run counters, *)
(* the record generator generateCANData with its DBC signal table, and the *)
(* loop of generateDataset that stamps, generates, renders and writes one  *)
(* CSV row per record.                                                     *)
(***************************************************************************)
EXTENDS Integers, Sequences, FiniteSets, TLC

\* The targets of main.go:17-18, scaled down.  TotalRecords (main.go:16) is
\* 3838860 = 3347013 + 491847 in the source, so it is kept as the sum.
NormalCount == 2
InjectedCount == 1
TotalRecords == NormalCount + InjectedCount
DataLength == 8

\* Number of calls of generateDataset a process makes in SpecRerun.
MaxRuns == 2

VARIABLES
    normalMessages,    \* package counter, main.go:23
    injectedMessages,  \* package counter, main.go:23
    pc,                \* position of the process in main / generateDataset
    i,                 \* loop index of generateDataset
    timestamp,         \* loop local: formatTimestamp()
    canID,             \* loop local: first result of generateCANData
    data,              \* loop local: second result, [8]byte indexed 0..7
    flag,              \* loop local: third result, the label
    rows,              \* rows handed to the csv writer, in order
    err,               \* result of generateDataset once it has returned
    runs,              \* number of calls of generateDataset so far
    flip,              \* history: the decision draw of the last generateCANData call
    log,               \* history: clock sample and record of every iteration so far
    twin               \* the parked one of two runs compared side by side

vars == <<normalMessages, injectedMessages, pc, i, timestamp, canID, data,
          flag, rows, err, runs, flip, log, twin>>

counters == <<normalMessages, injectedMessages>>
locals == <<timestamp, canID, data, flag>>

----------------------------------------------------------------------------
(* Integer conversions and formatting *)

ToByte(v) == v % 256
\* uint32(v) of an int: v for 0 <= v < 2^32, v + 2^32 for -2^32 <= v < 0
ToUint32(v) == IF v >= 0 THEN v ELSE ((v + 2147483647) + 2147483647) + 2
ShiftRight8(v) == v \div 256
AndFF(v) == v % 256

HexDigit(d) == SubSeq("0123456789ABCDEF", d + 1, d + 1)

RECURSIVE HexUpper(_)
\* fmt.Sprintf("%X", v) for v >= 0: no prefix, no padding
HexUpper(v) == IF v < 16 THEN HexDigit(v)
               ELSE HexUpper(v \div 16) \o HexDigit(v % 16)

\* fmt.Sprintf("%02X", b) for a byte
Hex02(b) == IF b < 16 THEN "0" \o HexDigit(b) ELSE HexUpper(b)

DecDigit(d) == SubSeq("0123456789", d + 1, d + 1)

RECURSIVE Itoa(_)
\* strconv.Itoa / "%d"
Itoa(v) == IF v < 0 THEN "-" \o Itoa(0 - v)
           ELSE IF v < 10 THEN DecDigit(v)
           ELSE Itoa(v \div 10) \o DecDigit(v % 10)

RECURSIVE Pad0(_, _)
Pad0(s, w) == IF Len(s) >= w THEN s ELSE Pad0("0" \o s, w)

\* slip: "%d" in place of "%06d"
Dec06_NoPad(v) == Itoa(v)

\* "%06d" for v >= 0
Dec06(v) == Pad0(Itoa(v), 6)

----------------------------------------------------------------------------
(* Random source.  rand.Intn(n) returns some value of 0..n-1.  The source  *)
(* "full" enumerates every outcome except for the 8 payload bytes of an    *)
(* injected record (n = 256), where it enumerates the two extreme bytes;   *)
(* the source "coarse" enumerates the two extremes of the key index        *)
(* (n <= 8), one byte value when n = 256 and the largest outcome otherwise.*)

Sources == {"full", "coarse"}

Intn(rng, n) ==
    IF rng = "full"
    THEN IF n = 256 THEN {0, 255} ELSE 0 .. (n - 1)
    ELSE IF n = 256 THEN {165} ELSE IF n > 8 THEN {n - 1} ELSE {0, n - 1}

\* the outcomes of rand.Float64() < 0.5
Float64Below == BOOLEAN

\* Number of iteration orders of the DBC map that are enumerated: Go leaves
\* the order of "for k := range DBC" unspecified; order s lists the keys
\* starting at the s-th key and wrapping around.
MaxOrders == 2

\* Wall-clock samples of time.Now(), in microseconds since the epoch.  The
\* wall clock may be set back between two samples.
ClockSamples == {1999999, 2000000}

----------------------------------------------------------------------------
(* Sampling helpers, main.go:40-50 *)

\* slip: the span is added past the maximum
fluctuate_PastMax(min, max, r) == min + r + 1

\* fluctuate(min, max) with r the outcome of rand.Intn(max-min+1)
fluctuate(min, max, r) == min + r

\* the values fluctuate(min, max) can return under source rng
fluctuateSet(rng, min, max) ==
    {fluctuate(min, max, r) : r \in Intn(rng, max - min + 1)}

\* slip: the draw is ignored, the signal is stuck on
toggleOnOff_Stuck(below) == 1

\* toggleOnOff() with below the outcome of rand.Float64() < 0.5
toggleOnOff(below) == IF below THEN 1 ELSE 0

toggleSet == {toggleOnOff(below) : below \in Float64Below}

----------------------------------------------------------------------------
(* The DBC signal table, main.go:26-37 *)

ZeroData == [k \in 0 .. (DataLength - 1) |-> 0]

\* slip: the value is written to bytes 0 and 1
OneByte_Echo(b0) == [k \in 0 .. (DataLength - 1) |-> IF k <= 1 THEN b0 ELSE 0]

\* [8]byte{b0, 0, 0, 0, 0, 0, 0, 0}
OneByte(b0) == [k \in 0 .. (DataLength - 1) |-> IF k = 0 THEN b0 ELSE 0]

\* [8]byte{b0, b1, 0, 0, 0, 0, 0, 0}
TwoBytes(b0, b1) ==
    [k \in 0 .. (DataLength - 1) |-> IF k = 0 THEN b0 ELSE IF k = 1 THEN b1 ELSE 0]

DBCKeySeq == <<256, 257, 512, 513, 514, 515, 516, 517>>

DBCKeys == {DBCKeySeq[k] : k \in 1 .. Len(DBCKeySeq)}

ToggleIDs == {256, 257}

\* [min, max] of the single-byte range identifiers 0x200..0x204
RangeMin(id) ==
    CASE id = 512 -> 80 [] id = 513 -> 60 [] id = 514 -> 90
      [] id = 515 -> 60 [] id = 516 -> 40 [] id = 517 -> 2500

RangeMax(id) ==
    CASE id = 512 -> 100 [] id = 513 -> 90 [] id = 514 -> 100
      [] id = 515 -> 80 [] id = 516 -> 60 [] id = 517 -> 3000

\* payload of a toggle identifier from the toggleOnOff() result
TogglePayload(t) == OneByte(ToByte(t))

\* payload of a single-byte range identifier from the fluctuate() result
RangePayload(v) == OneByte(ToByte(v))

\* payload of 0x205 from its two fluctuate(2500, 3000) results
EngineRPMPayload(v1, v2) == TwoBytes(ToByte(ShiftRight8(v1)), ToByte(AndFF(v2)))

\* the payloads DBC[id]() can return under source rng
DBC(rng, id) ==
    IF id \in ToggleIDs
    THEN {TogglePayload(t) : t \in toggleSet}
    ELSE IF id = 517
    THEN {EngineRPMPayload(v1, v2) :
              v1 \in fluctuateSet(rng, RangeMin(id), RangeMax(id)),
              v2 \in fluctuateSet(rng, RangeMin(id), RangeMax(id))}
    ELSE {RangePayload(v) : v \in fluctuateSet(rng, RangeMin(id), RangeMax(id))}

\* dbcKeys as built by the range loop under iteration order s
dbcKeys(s) ==
    [k \in 1 .. Len(DBCKeySeq) |-> DBCKeySeq[((s + k - 1) % Len(DBCKeySeq)) + 1]]

----------------------------------------------------------------------------
(* generateCANData, main.go:53-79 *)

\* slip: the coin is not consulted, injection waits for the normal class
InjectedBranch_NoCoin(coin) ==
    injectedMessages < InjectedCount /\ normalMessages >= NormalCount

\* slip: the injected target is not tested
InjectedBranch_NoCap(coin) == normalMessages >= NormalCount \/ coin

\* slip: an exhausted normal class does not force injection
InjectedBranch_NoForce(coin) == injectedMessages < InjectedCount /\ coin

\* condition of the injected branch, main.go:58; coin is rand.Float64() < 0.5
InjectedBranch(coin) ==
    injectedMessages < InjectedCount /\ (normalMessages >= NormalCount \/ coin)

\* slip: the normal branch stops one record early
NormalBranch_Strict == normalMessages < NormalCount - 1

\* slip: the normal branch is a plain else
NormalBranch_Always == TRUE

\* condition of the normal branch, main.go:66
NormalBranch == normalMessages < NormalCount

\* slip: the identifier range starts at 0x200
InjectedID_LowBase(r) == ToUint32(r + 512)

\* identifier of an injected record from the outcome r of rand.Intn(0x300-0x206)
InjectedID(r) == ToUint32(r + 518)

InjectedIDDraws(rng) == Intn(rng, 768 - 518)

\* slip: an injected record is counted twice
countInjected_Twice == injectedMessages + 2

\* injectedMessages++, main.go:65
countInjected == injectedMessages + 1

\* slip: a normal record is counted twice
countNormal_Twice == normalMessages + 2

\* slip: a normal record is counted only when its first byte is set
countNormal_IfSet == normalMessages + (IF data'[0] = 0 THEN 0 ELSE 1)

\* normalMessages++, main.go:75
countNormal == normalMessages + 1

\* main.go:58 evaluates rand.Float64() only when both operands before it
\* leave the condition open
CoinDrawn == injectedMessages < InjectedCount /\ normalMessages < NormalCount

generateCANData(rng) ==
    \E coin \in Float64Below :
      /\ flip' = IF CoinDrawn THEN (IF coin THEN "below" ELSE "above") ELSE "none"
      /\ IF InjectedBranch(coin)
           THEN \E r \in InjectedIDDraws(rng) :
                \E bytes \in [0 .. (DataLength - 1) -> Intn(rng, 256)] :
                   /\ canID' = InjectedID(r)
                   /\ data' = [k \in 0 .. (DataLength - 1) |-> ToByte(bytes[k])]
                   /\ flag' = "T"
                   /\ injectedMessages' = countInjected
                   /\ UNCHANGED normalMessages
           ELSE IF NormalBranch
           THEN \E s \in 0 .. (MaxOrders - 1) :
                \E idx \in Intn(rng, Len(DBCKeySeq)) :
                \E d \in DBC(rng, dbcKeys(s)[idx + 1]) :
                   /\ canID' = dbcKeys(s)[idx + 1]
                   /\ data' = d
                   /\ flag' = "R"
                   /\ normalMessages' = countNormal
                   /\ UNCHANGED injectedMessages
           ELSE /\ canID' = 0
                /\ data' = ZeroData
                /\ flag' = ""
                /\ UNCHANGED counters

----------------------------------------------------------------------------
(* formatTimestamp, main.go:132-137; now is time.Now() in microseconds *)

Unix(now) == now \div 1000000

UnixMicro(now) == now

Microseconds(now) == UnixMicro(now) - (Unix(now) * 1000000)

formatTimestamp(now) == Itoa(Unix(now)) \o "." \o Dec06(Microseconds(now))

----------------------------------------------------------------------------
(* generateDataset, main.go:82-129, and main, main.go:139-148 *)

RECURSIVE HexColumns(_, _)
\* the loop of main.go:116-118 from byte k on
HexColumns(d, k) ==
    IF k >= DataLength THEN <<>> ELSE <<Hex02(d[k])>> \o HexColumns(d, k + 1)

\* slip: the length column is left out
record_NoLength(ts, id, d, f) ==
    <<ts, HexUpper(id)>> \o HexColumns(d, 0) \o <<f>>

\* the record of main.go:109-120 built from the loop locals
record(ts, id, d, f) ==
    <<ts, HexUpper(id), Itoa(DataLength)>> \o HexColumns(d, 0) \o <<f>>

\* no second run is parked
NoTwin == [normalMessages |-> 0, injectedMessages |-> 0, canID |-> 0,
           data |-> ZeroData, flag |-> "", flip |-> "none"]

\* main.go:83-86: os.Create succeeds (truncating the file) or fails
Create ==
    /\ pc = "main"
    /\ runs' = runs + 1
    /\ \E ok \in BOOLEAN :
          IF ok
          THEN /\ pc' = "loop"
               /\ i' = 0
               /\ rows' = <<>>
               /\ log' = <<>>
               /\ UNCHANGED err
          ELSE /\ pc' = "returned"
               /\ err' = "could not create file"
               /\ UNCHANGED <<i, rows, log>>
    /\ UNCHANGED <<counters, locals, flip, twin>>

\* main.go:105-107: one more iteration: stamp it and generate its record
Generate(rng) ==
    /\ pc = "loop"
    /\ i < TotalRecords
    /\ generateCANData(rng)
    /\ \E now \in ClockSamples :
          /\ timestamp' = formatTimestamp(now)
          /\ log' = Append(log, [now |-> now, canID |-> canID',
                                 data |-> data', flag |-> flag'])
    /\ pc' = "write"
    /\ UNCHANGED <<i, rows, err, runs, twin>>

\* slip: a failed write skips the row and the loop goes on
Write_Continue ==
    /\ pc = "write"
    /\ \E ok \in BOOLEAN :
          /\ rows' = IF ok THEN Append(rows, record(timestamp, canID, data, flag))
                          ELSE rows
          /\ i' = i + 1
          /\ pc' = "loop"
          /\ UNCHANGED err
    /\ timestamp' = ""
    /\ canID' = 0
    /\ data' = ZeroData
    /\ flag' = ""
    /\ flip' = "none"
    /\ UNCHANGED <<counters, runs, log, twin>>

\* main.go:109-125: render the record and hand it to the csv writer
Write ==
    /\ pc = "write"
    /\ \E ok \in BOOLEAN :
          IF ok
          THEN /\ rows' = Append(rows, record(timestamp, canID, data, flag))
               /\ i' = i + 1
               /\ pc' = "loop"
               /\ UNCHANGED err
          ELSE /\ pc' = "returned"
               /\ err' = "could not write record"
               /\ UNCHANGED <<i, rows>>
    /\ timestamp' = ""
    /\ canID' = 0
    /\ data' = ZeroData
    /\ flag' = ""
    /\ flip' = "none"
    /\ UNCHANGED <<counters, runs, log, twin>>

\* slip: the loop bound is one short
Return_Early ==
    /\ pc = "loop"
    /\ i >= TotalRecords - 1
    /\ pc' = "returned"
    /\ err' = "nil"
    /\ UNCHANGED <<counters, locals, i, rows, runs, flip, log, twin>>

\* main.go:105,128: the loop is over, generateDataset returns nil
Return ==
    /\ pc = "loop"
    /\ i >= TotalRecords
    /\ pc' = "returned"
    /\ err' = "nil"
    /\ UNCHANGED <<counters, locals, i, rows, runs, flip, log, twin>>

Init ==
    /\ normalMessages = 0
    /\ injectedMessages = 0
    /\ pc = "main"
    /\ i = 0
    /\ timestamp = ""
    /\ canID = 0
    /\ data = ZeroData
    /\ flag = ""
    /\ rows = <<>>
    /\ err = "none"
    /\ runs = 0
    /\ flip = "none"
    /\ log = <<>>
    /\ twin = NoTwin

Next ==
    \/ Create
    \/ Generate("coarse")
    \/ Write
    \/ Return

\* the program: main calls generateDataset once
Spec == Init /\ [][Next]_vars

\* the program keeps running: a step that can be taken is taken
SpecFair == Spec /\ WF_vars(Next)

\* a process that calls generateDataset again after it has returned
Rerun ==
    /\ pc = "returned"
    /\ runs < MaxRuns
    /\ pc' = "main"
    /\ err' = "none"
    /\ UNCHANGED <<counters, locals, i, rows, runs, flip, log, twin>>

NextRerun ==
    \/ Next
    \/ Rerun

SpecRerun == Init /\ [][NextRerun]_vars

\* generateCANData on its own: every call site outcome of main.go:107 under
\* the full random source, the results dropped before the next call
Call ==
    /\ pc = "call"
    /\ generateCANData("full")
    /\ pc' = "ret"
    /\ UNCHANGED <<timestamp, i, rows, err, runs, log, twin>>

Drop ==
    /\ pc = "ret"
    /\ pc' = "call"
    /\ canID' = 0
    /\ data' = ZeroData
    /\ flag' = ""
    /\ flip' = "none"
    /\ UNCHANGED <<counters, timestamp, i, rows, err, runs, log, twin>>

InitCall ==
    /\ normalMessages = 0
    /\ injectedMessages = 0
    /\ pc = "call"
    /\ i = 0
    /\ timestamp = ""
    /\ canID = 0
    /\ data = ZeroData
    /\ flag = ""
    /\ rows = <<>>
    /\ err = "none"
    /\ runs = 0
    /\ flip = "none"
    /\ log = <<>>
    /\ twin = NoTwin

NextCall ==
    \/ Call
    \/ Drop

SpecCall == InitCall /\ [][NextCall]_vars

\* Two runs side by side, each from zero counters: every round the first
\* run makes its generateCANData call (main.go:107), then the second run
\* makes its own call with its own identifier and payload draws but the same
\* outcome of the decision draw.  The variables hold the run that is
\* calling, twin holds the other one.
TwinState == [normalMessages |-> normalMessages, injectedMessages |-> injectedMessages,
              canID |-> canID, data |-> data, flag |-> flag, flip |-> flip]

\* the calling run is parked and the parked run takes its place
TwinExchange ==
    /\ twin' = TwinState
    /\ normalMessages' = twin.normalMessages
    /\ injectedMessages' = twin.injectedMessages
    /\ canID' = 0
    /\ data' = ZeroData
    /\ flag' = ""
    /\ flip' = "none"

TwinFirst ==
    /\ pc = "first"
    /\ generateCANData("coarse")
    /\ pc' = "called"
    /\ UNCHANGED <<timestamp, i, rows, err, runs, log, twin>>

TwinSwap ==
    /\ pc = "called"
    /\ TwinExchange
    /\ pc' = "second"
    /\ UNCHANGED <<timestamp, i, rows, err, runs, log>>

TwinSecond ==
    /\ pc = "second"
    /\ generateCANData("coarse")
    /\ flip' = twin.flip
    /\ pc' = "compare"
    /\ UNCHANGED <<timestamp, i, rows, err, runs, log, twin>>

TwinResume ==
    /\ pc = "compare"
    /\ TwinExchange
    /\ pc' = "first"
    /\ UNCHANGED <<timestamp, i, rows, err, runs, log>>

InitTwin ==
    /\ normalMessages = 0
    /\ injectedMessages = 0
    /\ pc = "first"
    /\ i = 0
    /\ timestamp = ""
    /\ canID = 0
    /\ data = ZeroData
    /\ flag = ""
    /\ rows = <<>>
    /\ err = "none"
    /\ runs = 0
    /\ flip = "none"
    /\ log = <<>>
    /\ twin = NoTwin

NextTwin ==
    \/ TwinFirst
    \/ TwinSwap
    \/ TwinSecond
    \/ TwinResume

SpecTwin == InitTwin /\ [][NextTwin]_vars

----------------------------------------------------------------------------
(* Reading the output back *)

\* the label column of a written row
RowLabel(row) == row[Len(row)]

\* number of written rows that carry label l
CountLabel(l) == Cardinality({k \in 1 .. Len(rows) : RowLabel(rows[k]) = l})

\* generateDataset has returned nil
Completed == pc = "returned" /\ err = "nil"

\* the value of one upper-case hex digit
HexDigitValue ==
    ("0" :> 0) @@ ("1" :> 1) @@ ("2" :> 2) @@ ("3" :> 3) @@ ("4" :> 4) @@
    ("5" :> 5) @@ ("6" :> 6) @@ ("7" :> 7) @@ ("8" :> 8) @@ ("9" :> 9) @@
    ("A" :> 10) @@ ("B" :> 11) @@ ("C" :> 12) @@ ("D" :> 13) @@ ("E" :> 14) @@
    ("F" :> 15)

RECURSIVE HexFrom(_, _, _)
HexFrom(h, k, acc) ==
    IF k > Len(h) THEN acc
    ELSE HexFrom(h, k + 1, 16 * acc + HexDigitValue[SubSeq(h, k, k)])

\* the integer an upper-case hex column stands for
HexValue(h) == HexFrom(h, 1, 0)

----------------------------------------------------------------------------
(* Properties *)

\* C1: a completed run has written exactly InjectedCount rows labelled "T"
\* and exactly NormalCount rows labelled "R", TotalRecords rows in all,
\* whatever the coin flips were.
C1_ExactLabelCounts ==
    Completed =>
        /\ CountLabel("T") = InjectedCount
        /\ CountLabel("R") = NormalCount
        /\ CountLabel("T") + CountLabel("R") = TotalRecords
        /\ Len(rows) = TotalRecords

C1_Witness ==
    /\ Completed
    /\ Len(rows) = TotalRecords
    /\ RowLabel(rows[1]) = "R"
    /\ RowLabel(rows[TotalRecords]) = "R"

\* C2: neither counter ever exceeds its target, and when the run has
\* completed both counters equal their targets.
C2_CountersWithinTargets ==
    /\ normalMessages <= NormalCount
    /\ injectedMessages <= InjectedCount
    /\ Completed =>
          /\ normalMessages = NormalCount
          /\ injectedMessages = InjectedCount

C2_Witness ==
    /\ Completed
    /\ normalMessages = NormalCount
    /\ injectedMessages = InjectedCount
    /\ RowLabel(rows[1]) = "T"

\* C3: in the run of the program the fallback branch is never taken: every
\* record generated and every row written is labelled "R" or "T".
C3_FallbackUnreachable ==
    /\ pc = "write" => flag \in {"R", "T"}
    /\ \A k \in 1 .. Len(rows) : RowLabel(rows[k]) \in {"R", "T"}

C3_Witness ==
    /\ pc = "loop"
    /\ Len(rows) = TotalRecords
    /\ normalMessages = NormalCount
    /\ injectedMessages = InjectedCount

\* C4: every call of generateDataset starts with both counters at zero, and
\* every completed call has written InjectedCount "T" and NormalCount "R"
\* rows (stated as claimed; a second call in the same process refutes it).
C4_EveryRunStartsAtZero ==
    /\ pc = "main" => (normalMessages = 0 /\ injectedMessages = 0)
    /\ Completed =>
          /\ CountLabel("T") = InjectedCount
          /\ CountLabel("R") = NormalCount

\* C5: a call of generateCANData that returns "T" adds exactly 1 to
\* injectedMessages and leaves normalMessages alone, a call that returns "R"
\* adds exactly 1 to normalMessages and leaves injectedMessages alone, and no
\* step decreases either counter.
C5_CountedOncePerRecord ==
    [][ /\ (pc = "loop" /\ pc' = "write" /\ flag' = "T") =>
              /\ injectedMessages' = injectedMessages + 1
              /\ normalMessages' = normalMessages
        /\ (pc = "loop" /\ pc' = "write" /\ flag' = "R") =>
              /\ normalMessages' = normalMessages + 1
              /\ injectedMessages' = injectedMessages
        /\ normalMessages' >= normalMessages
        /\ injectedMessages' >= injectedMessages ]_vars

C5_Witness ==
    /\ pc = "write"
    /\ flag = "T"
    /\ injectedMessages = InjectedCount
    /\ normalMessages > 0

\* C6: the identifier of every record labelled "T" lies in 0x206..0x2FF and
\* is not a key of the DBC table.
C6_InjectedOutsideTable ==
    flag = "T" =>
        /\ canID \in 518 .. 767
        /\ canID \notin DBCKeys

C6_Witness ==
    /\ pc = "ret"
    /\ flag = "T"
    /\ canID = 767

\* C7: the identifier of every record labelled "R" is a key of the DBC
\* table, bytes 2..7 of its payload are zero, and byte 1 is zero too unless
\* the identifier is 0x205.
C7_NormalInTableZeroPadded ==
    flag = "R" =>
        /\ canID \in DBCKeys
        /\ \A k \in 2 .. (DataLength - 1) : data[k] = 0
        /\ canID # 517 => data[1] = 0

C7_Witness ==
    /\ pc = "ret"
    /\ flag = "R"
    /\ canID = 517
    /\ data[1] # 0

\* C8: for every "R" record of identifier 0x205 the value read back from
\* the payload, byte0 * 256 + byte1, lies in [2500, 3000] (stated as
\* claimed; the two independent draws refute it).
C8_EngineRPMInRange ==
    (flag = "R" /\ canID = 517) =>
        (data[0] * 256 + data[1]) \in RangeMin(517) .. RangeMax(517)

\* C9: for every "R" record of a single-byte range identifier 0x200..0x204
\* payload byte 0 lies in the closed range of that identifier.
C9_SingleByteInRange ==
    (flag = "R" /\ canID \in 512 .. 516) =>
        /\ data[0] >= RangeMin(canID)
        /\ data[0] <= RangeMax(canID)

C9_Witness ==
    /\ pc = "ret"
    /\ flag = "R"
    /\ canID = 512
    /\ data[0] = 100

\* C10: for every "R" record of a toggle identifier payload byte 0 is 0 or
\* 1, and whenever a normal record can be generated, whatever rows were
\* written before, each toggle identifier can come with 0 and with 1.
C10_ToggleRedrawn ==
    /\ (flag = "R" /\ canID \in ToggleIDs) => data[0] \in {0, 1}
    /\ (pc = "loop" /\ i < TotalRecords /\ NormalBranch) =>
          \A id \in ToggleIDs : \A b \in {0, 1} :
              ENABLED (/\ Generate("coarse")
                       /\ flag' = "R"
                       /\ canID' = id
                       /\ data'[0] = b)

C10_Witness ==
    /\ pc = "write"
    /\ flag = "R"
    /\ canID = 256
    /\ data[0] = 0
    /\ Len(rows) > 0
    /\ rows[Len(rows)][2] = "100"
    /\ HexValue(rows[Len(rows)][4]) = 1

\* the error results of generateDataset
Failures == {"could not create file", "could not write record"}

\* C11: a failed file creation returns the error with both counters and the
\* rows untouched and no record generated; a failed write returns the error
\* at once with no row added; after an error return nothing more is
\* generated or written, so no write is retried.
C11_ErrorsAbortTheRun ==
    [][ /\ pc = "main" =>
              \/ pc' = "loop"
              \/ /\ pc' = "returned"
                 /\ err' = "could not create file"
                 /\ UNCHANGED <<counters, rows, log>>
        /\ pc = "write" =>
              \/ /\ pc' = "loop"
                 /\ Len(rows') = Len(rows) + 1
              \/ /\ pc' = "returned"
                 /\ err' = "could not write record"
                 /\ UNCHANGED <<counters, rows, log, i>>
        /\ ~(pc = "returned" /\ err \in Failures) ]_vars

C11_Witness ==
    /\ pc = "returned"
    /\ err = "could not write record"
    /\ Len(rows) = 1
    /\ Len(log) = 2

\* C12: the k-th row read back is the k-th record generated, a record is
\* handed to the writer before the next one is generated, a completed run
\* has written TotalRecords rows, and every row has 12 columns with "8" in
\* the length column.
C12_RowsInGenerationOrder ==
    /\ Len(log) - Len(rows) \in {0, 1}
    /\ pc = "loop" => Len(log) = Len(rows)
    /\ Completed => Len(rows) = TotalRecords
    /\ \A k \in 1 .. Len(rows) :
          /\ Len(rows[k]) = 12
          /\ rows[k][3] = "8"
          /\ rows[k][1] = formatTimestamp(log[k].now)
          /\ HexValue(rows[k][2]) = log[k].canID
          /\ \A b \in 0 .. (DataLength - 1) :
                /\ Len(rows[k][4 + b]) = 2
                /\ HexValue(rows[k][4 + b]) = log[k].data[b]
          /\ RowLabel(rows[k]) = log[k].flag

C12_Witness ==
    /\ Completed
    /\ Len(rows) = TotalRecords
    /\ log[1].canID # log[2].canID
    /\ log[2].canID # log[3].canID

\* C13: the order of labels is free: at every iteration either label whose
\* class is not exhausted can be generated next, the generated record can
\* be written and the full loop can return, so every sequence of
\* NormalCount "R" and InjectedCount "T" is the output of a completed run.
C13_EveryOrderPossible ==
    /\ (pc = "loop" /\ i < TotalRecords) =>
          /\ injectedMessages < InjectedCount =>
                ENABLED (Generate("coarse") /\ flag' = "T")
          /\ normalMessages < NormalCount =>
                ENABLED (Generate("coarse") /\ flag' = "R")
    /\ pc = "write" =>
          ENABLED (Write /\ rows' = Append(rows, record(timestamp, canID, data, flag)))
    /\ (pc = "loop" /\ i >= TotalRecords) => ENABLED Return
    /\ pc \in {"loop", "write"} =>
          /\ CountLabel("R") + (IF flag = "R" THEN 1 ELSE 0) = normalMessages
          /\ CountLabel("T") + (IF flag = "T" THEN 1 ELSE 0) = injectedMessages

C13_Witness ==
    /\ Completed
    /\ RowLabel(rows[1]) = "R"
    /\ RowLabel(rows[TotalRecords]) = "T"

----------------------------------------------------------------------------
(* Reading a timestamp back *)

DigitChars == {"0", "1", "2", "3", "4", "5", "6", "7", "8", "9"}

\* the integer the decimal digits s[k..n] stand for after acc, or -1 when
\* one of them is not a digit
RECURSIVE DecFrom(_, _, _, _)
DecFrom(s, k, n, acc) ==
    IF k > n THEN acc
    ELSE LET c == SubSeq(s, k, k)
         IN  IF c \in DigitChars
             THEN DecFrom(s, k + 1, n, 10 * acc + HexDigitValue[c])
             ELSE -1

\* the integer s[k..n] stands for, or -1 when it is not a string of digits
DecValue(s, k, n) == IF k > n THEN -1 ELSE DecFrom(s, k, n, 0)

\* ts read as <integer>.<6 digits>: whether it has that form, and the two
\* numbers it holds
ParseTimestamp(ts) ==
    LET n == Len(ts)
        dot == n - 6
        neg == n > 0 /\ SubSeq(ts, 1, 1) = "-"
        abs == DecValue(ts, IF neg THEN 2 ELSE 1, dot - 1)
        frac == DecValue(ts, dot + 1, n)
    IN  IF dot >= 2 /\ SubSeq(ts, dot, dot) = "." /\ abs >= 0 /\ frac >= 0
        THEN [ok |-> TRUE,
              seconds |-> IF neg THEN 0 - abs ELSE abs,
              fraction |-> frac]
        ELSE [ok |-> FALSE, seconds |-> 0, fraction |-> 0]

\* order of two parsed timestamps: by seconds, then by fraction
TimestampLeq(a, b) ==
    \/ a.seconds < b.seconds
    \/ /\ a.seconds = b.seconds
       /\ a.fraction <= b.fraction

\* the timestamps of the written rows, parsed
RECURSIVE TimestampsFrom(_)
TimestampsFrom(k) ==
    IF k > Len(rows) THEN <<>>
    ELSE <<ParseTimestamp(rows[k][1])>> \o TimestampsFrom(k + 1)

RowTimestamps == TimestampsFrom(1)

\* C14: every written timestamp has the form <integer>.<6 digits> with the
\* fraction in 0..999999 and denotes the clock sample of its iteration; the
\* sample of an iteration is taken after the rows before it were written;
\* and wherever the clock samples of two rows do not go backward, neither do
\* their timestamps.
C14_TimestampsFollowTheClock ==
    LET ts == RowTimestamps
    IN  /\ pc = "write" => Len(rows) = Len(log) - 1
        /\ \A k \in 1 .. Len(rows) :
              /\ ts[k].ok
              /\ ts[k].fraction \in 0 .. 999999
              /\ ts[k].seconds * 1000000 + ts[k].fraction = log[k].now
        /\ \A k \in 1 .. Len(rows) : \A l \in k .. Len(rows) :
              log[k].now <= log[l].now => TimestampLeq(ts[k], ts[l])

C14_Witness ==
    /\ Len(rows) = TotalRecords
    /\ \A k \in 1 .. (Len(rows) - 1) : log[k].now <= log[k + 1].now
    /\ log[1].now < log[TotalRecords].now
    /\ RowTimestamps[1].seconds < RowTimestamps[TotalRecords].seconds

\* the labels of the first k rows
LabelsBefore(k, l) == Cardinality({m \in 1 .. (k - 1) : RowLabel(rows[m]) = l})

\* C15: a call made with normalMessages at its target and injectedMessages
\* below returns "T", and a call made with injectedMessages at its target
\* and normalMessages below returns "R", whatever the coin; so every row
\* after the NormalCount-th "R" is a "T" and every row after the
\* InjectedCount-th "T" is an "R".
C15_ForcedAtTheEdges ==
    /\ [][ (pc = "loop" /\ pc' = "write") =>
              /\ (normalMessages = NormalCount /\ injectedMessages < InjectedCount)
                    => flag' = "T"
              /\ (injectedMessages = InjectedCount /\ normalMessages < NormalCount)
                    => flag' = "R" ]_vars
    /\ [](\A k \in 1 .. Len(rows) :
              /\ LabelsBefore(k, "R") = NormalCount => RowLabel(rows[k]) = "T"
              /\ LabelsBefore(k, "T") = InjectedCount => RowLabel(rows[k]) = "R")

C15_Witness ==
    /\ pc = "write"
    /\ flag = "T"
    /\ normalMessages = NormalCount
    /\ flip = "none"

\* C16: a call of generateCANData made with both counters at their targets
\* returns identifier 0, an all-zero payload and the empty label and leaves
\* both counters unchanged.
C16_FallbackRecord ==
    [][ ( /\ pc = "loop"
          /\ pc' = "write"
          /\ normalMessages = NormalCount
          /\ injectedMessages = InjectedCount ) =>
              /\ canID' = 0
              /\ data' = ZeroData
              /\ flag' = ""
              /\ UNCHANGED counters ]_vars

C16_Witness ==
    /\ pc = "write"
    /\ runs = 2
    /\ flag = ""
    /\ canID = 0
    /\ normalMessages = NormalCount
    /\ injectedMessages = InjectedCount

\* C17: a run in which the file is created and no write fails terminates:
\* it reaches the nil return after exactly TotalRecords iterations, each
\* with one generateCANData call and one row.
C17_RunTerminates ==
    ([](err \notin Failures)) =>
        <>( /\ Completed
            /\ i = TotalRecords
            /\ Len(log) = TotalRecords
            /\ Len(rows) = TotalRecords )

C17_Witness ==
    /\ Completed
    /\ i = TotalRecords
    /\ Len(log) = TotalRecords
    /\ normalMessages + injectedMessages = TotalRecords

\* C18: in the run of the program, at the head of iteration i the two
\* counters sum to i, so a call inside the loop finds a counter below its
\* target, and after the call they sum to i + 1.
C18_CountersSumToIndex ==
    /\ pc = "loop" =>
          /\ i \in 0 .. TotalRecords
          /\ normalMessages + injectedMessages = i
    /\ (pc = "loop" /\ i < TotalRecords) =>
          \/ normalMessages < NormalCount
          \/ injectedMessages < InjectedCount
    /\ pc = "write" =>
          /\ i < TotalRecords
          /\ normalMessages + injectedMessages = i + 1

C18_Witness ==
    /\ pc = "loop"
    /\ i = 2
    /\ normalMessages = 1
    /\ injectedMessages = 1

\* C19: when generateDataset has returned the write error of iteration i,
\* the record of that iteration is counted although it was not written: the
\* counters sum to i + 1 and i rows were handed to the writer.
C19_LostRecordStaysCounted ==
    err = "could not write record" =>
        /\ pc = "returned"
        /\ normalMessages + injectedMessages = i + 1
        /\ Len(rows) = i
        /\ Len(log) = i + 1

C19_Witness ==
    /\ err = "could not write record"
    /\ i = TotalRecords - 1
    /\ normalMessages = NormalCount
    /\ injectedMessages = InjectedCount
    /\ Len(rows) = TotalRecords - 1

\* C20: two runs from zero counters that see the same decision draws return
\* the same label at every call and have the same counter values after it,
\* whatever identifiers and payload bytes each of them draws.
C20_LabelsFollowTheCoins ==
    pc = "compare" =>
        /\ flag = twin.flag
        /\ normalMessages = twin.normalMessages
        /\ injectedMessages = twin.injectedMessages

C20_Witness ==
    /\ pc = "compare"
    /\ flag = "R"
    /\ twin.flag = "R"
    /\ flip = "above"
    /\ canID # twin.canID
    /\ data # twin.data
    /\ normalMessages = NormalCount

====
